---------------------------- MODULE Spec2Model ----------------------------
(***************************************************************************)
(* Verification model of the control-systems crate: the System contract    *)
(* and its simulate driver, the example leaf systems, the continuous and   *)
(* discrete wrappers (IntegratedSystem, HeldSystem), the holders, and the  *)
(* SeriesSystem / ClosedLoop composition operators.                        *)
(*                                                                         *)
(* Numbers.  Times are integers: a time t stands for the f64 value t       *)
(* ticks, and every time of the integer specifications is an integer far   *)
(* below 2^53, on which f64 addition, subtraction, doubling, min and the   *)
(* comparisons are exact.  Data values are integers in units of            *)
(* 1/DataScale (64 stands for 1.0); the gains used divide them exactly.    *)
(* Vectors are modelled by their single component (N = 1).  The driver     *)
(* run on times that are NOT exactly representable (0.1, 0.3, ...) is      *)
(* modelled separately, on IEEE-754 binary64 values, in SpecF64.           *)
(***************************************************************************)
EXTENDS Integers, Sequences, FiniteSets, TLC

VARIABLES
    sys,            \* the System under simulation / under direct calls
    pc,             \* position of the driver (or "call" for direct calls)
    time,           \* simulate: the time cursor `time`
    total_time,     \* simulate: argument total_time
    max_timestep,   \* simulate: argument max_timestep
    input,          \* simulate: the Param `input`
    next_time,      \* simulate: local `next_time`
    samples,        \* the Samples handed to the callback, in order
    calls,          \* history: the calls the driver made, in order
    last            \* history: the most recent direct update call

vars == <<sys, pc, time, total_time, max_timestep, input, next_time,
          samples, calls, last>>

-----------------------------------------------------------------------------
(* Numbers *)

\* f64::INFINITY: above every finite time of the model; only compared.
INFINITY == 1000000000

\* Data value 1.0 in model units.
DataScale == 64

Min(a, b) == IF b < a THEN b ELSE a

Abs(a) == IF a < 0 THEN -a ELSE a

\* Smallest integer >= a / b, for b > 0.
CeilDiv(a, b) == -((-a) \div b)

-----------------------------------------------------------------------------
(* utils/param.rs: Param *)

\* Param::new: no schedule.
ParamNew(value) == [value |-> value, steps |-> << >>, next_step |-> 0]

\* Param::step: insert (instant, new_value) before the first later entry.
ParamStep(p, new_value, instant) ==
    LET later == {i \in 1..Len(p.steps) : p.steps[i].time > instant}
        pos   == IF later = {} THEN Len(p.steps) + 1
                 ELSE CHOOSE i \in later : \A j \in later : i <= j
    IN  [p EXCEPT !.steps =
            SubSeq(p.steps, 1, pos - 1)
            \o << [time |-> instant, value |-> new_value] >>
            \o SubSeq(p.steps, pos, Len(p.steps))]

\* Mutant: the cursor moves past every entry whose time has been reached.
ParamUpdateToLatest(p, current_time) ==
    LET due == {i \in p.next_step + 1..Len(p.steps) :
                  \A j \in p.next_step + 1..i : current_time >= p.steps[j].time}
        n   == p.next_step + Cardinality(due)
    IN  IF due # {}
        THEN [param |-> [p EXCEPT !.next_step = n, !.value = p.steps[n].value],
              changed |-> TRUE]
        ELSE [param |-> p, changed |-> FALSE]

\* Param::update: the parameter after the call and the returned flag.
ParamUpdate(p, current_time) ==
    IF p.next_step < Len(p.steps) /\ current_time >= p.steps[p.next_step + 1].time
    THEN [param |-> [p EXCEPT !.next_step = p.next_step + 1,
                              !.value = p.steps[p.next_step + 1].value],
          changed |-> TRUE]
    ELSE [param |-> p, changed |-> FALSE]

\* The callbacks handed to Param::with, by name: |x| 1. / x (the one of
\* test_param_with), |x| 2. * x and |x| -x, on data in units of 1/DataScale.
Callback(name, x) ==
    CASE name = "inv" -> (DataScale * DataScale) \div x
      [] name = "double" -> 2 * x
      [] name = "neg" -> -x

\* Param::with: the derived value is computed once at construction.
ParamWith(p, callback) ==
    [param |-> p, callback |-> callback, with |-> Callback(callback, p.value)]

\* Mutant: the derived value is not recomputed.
ParamWithUpdateStale(w, current_time) ==
    LET r == ParamUpdate(w.param, current_time)
    IN  [pw |-> [w EXCEPT !.param = r.param], changed |-> r.changed]

\* ParamWith::update: the ParamWith after the call and the returned flag.
ParamWithUpdate(w, current_time) ==
    LET r == ParamUpdate(w.param, current_time)
    IN  IF ~r.changed
        THEN [pw |-> w, changed |-> FALSE]
        ELSE [pw |-> [w EXCEPT !.param = r.param,
                               !.with = Callback(w.callback, r.param.value)],
              changed |-> TRUE]

-----------------------------------------------------------------------------
(* system/gain.rs, system/mod.rs: the leaf example systems *)

\* Gain::new(gain): gain = num/den, output = Data::default().
GainNew(num, den) ==
    [kind |-> "Gain", gain |-> [num |-> num, den |-> den], output |-> 0]

\* UnitSystem::default.
UnitSystemDefault == [kind |-> "UnitSystem", output |-> 0]

\* input * self.gain
GainMul(x, g) == (x * g.num) \div g.den

\* Gain::update
GainUpdate(s, t, u) ==
    [sys |-> [s EXCEPT !.output = GainMul(u, s.gain)], ret |-> INFINITY, panic |-> FALSE]

\* UnitSystem::update
UnitSystemUpdate(s, t, u) ==
    [sys |-> [s EXCEPT !.output = u], ret |-> INFINITY, panic |-> FALSE]

-----------------------------------------------------------------------------
(* discrete/holder.rs: the holders *)

ZeroOrderHoldNew == [kind |-> "ZeroOrderHold", last_time |-> 0, last_input |-> 0]

FirstOrderHoldNew ==
    [kind |-> "FirstOrderHold", last_time |-> 0, last_input |-> 0,
     curr_time |-> 0, curr_input |-> 0, initialized |-> FALSE, output |-> 0]

ImpulseHoldNew ==
    [kind |-> "ImpulseHold", last_time |-> 0, last_input |-> 0, zero |-> 0]

\* f64::EPSILON = 2^-52, in ticks of the time axis: a tick is 2^-53, and every
\* whole number of ticks up to 2^53 is an f64.
EPSILON == 2

\* Mutant: the times must coincide exactly.
BelowEpsilonExact(d) == d = 0

\* |d| < f64::EPSILON
BelowEpsilon(d) == Abs(d) < EPSILON

\* ZeroOrderHold::hold, ImpulseHold::hold
SampleHold(h, t, v) == [h EXCEPT !.last_time = t, !.last_input = v]

\* Mutant: the previous sample is not moved to (last_time, last_input).
FirstOrderHoldHoldNoShift(h, t, v) ==
    [h EXCEPT !.curr_time = t, !.curr_input = v, !.initialized = TRUE]

\* FirstOrderHold::hold
FirstOrderHoldHold(h, t, v) ==
    IF ~h.initialized
    THEN [h EXCEPT !.curr_time = t, !.curr_input = v, !.initialized = TRUE]
    ELSE [h EXCEPT !.last_time = h.curr_time, !.last_input = h.curr_input,
                   !.curr_time = t, !.curr_input = v]

\* Holder::hold
Hold(h, t, v) ==
    IF h.kind = "FirstOrderHold" THEN FirstOrderHoldHold(h, t, v)
    ELSE SampleHold(h, t, v)

\* last_input * (1 - tau) + curr_input * tau with tau = num / den, 0 < num < den
Interpolate(lastv, currv, num, den) == (lastv * (den - num) + currv * num) \div den

\* Mutant: the interpolated value is written over the current sample
\* instead of the scratch buffer.
FirstOrderHoldQueryClobbering(h, q) ==
    IF ~h.initialized THEN [holder |-> h, value |-> h.curr_input]
    ELSE IF BelowEpsilon(h.curr_time - h.last_time)
         THEN [holder |-> h, value |-> h.curr_input]
    ELSE IF q <= h.last_time THEN [holder |-> h, value |-> h.last_input]
    ELSE IF q >= h.curr_time THEN [holder |-> h, value |-> h.curr_input]
    ELSE LET v == (h.last_input * (h.curr_time - q) + h.curr_input * (q - h.last_time))
                     \div (h.curr_time - h.last_time)
         IN  [holder |-> [h EXCEPT !.curr_input = v], value |-> v]

\* FirstOrderHold::get_output: the value returned, and the holder afterwards
\* (the interpolating branch writes the scratch buffer `output`).
FirstOrderHoldQuery(h, q) ==
    IF ~h.initialized THEN [holder |-> h, value |-> h.curr_input]
    ELSE IF BelowEpsilon(h.curr_time - h.last_time)
         THEN [holder |-> h, value |-> h.curr_input]
    ELSE IF q <= h.last_time THEN [holder |-> h, value |-> h.last_input]
    ELSE IF q >= h.curr_time THEN [holder |-> h, value |-> h.curr_input]
    ELSE LET v == Interpolate(h.last_input, h.curr_input,
                              q - h.last_time, h.curr_time - h.last_time)
         IN  [holder |-> [h EXCEPT !.output = v], value |-> v]

\* Mutant: a zero-order hold that is zero before the time of its sample.
HolderQueryCausal(h, q) ==
    CASE h.kind = "ZeroOrderHold" ->
            [holder |-> h, value |-> IF q < h.last_time THEN 0 ELSE h.last_input]
      [] h.kind = "ImpulseHold" ->
            [holder |-> h,
             value |-> IF BelowEpsilon(q - h.last_time) THEN h.last_input ELSE h.zero]
      [] h.kind = "FirstOrderHold" -> FirstOrderHoldQuery(h, q)

\* Holder::get_output: the value returned and the holder afterwards.
HolderQuery(h, q) ==
    CASE h.kind = "ZeroOrderHold" -> [holder |-> h, value |-> h.last_input]
      [] h.kind = "ImpulseHold" ->
            [holder |-> h,
             value |-> IF BelowEpsilon(q - h.last_time) THEN h.last_input ELSE h.zero]
      [] h.kind = "FirstOrderHold" -> FirstOrderHoldQuery(h, q)

-----------------------------------------------------------------------------
(* discrete/mod.rs: DiscreteSystem (the crate's MockDiscrete) and HeldSystem *)

\* MockDiscrete::new(step)
MockDiscreteNew(step) == [state |-> 0, step |-> step]

\* MockDiscrete::next_state: state + input
NextState(d, t, state, u) == state + u

\* MockDiscrete::get_output: the state
DiscreteOutput(d) == d.state

\* DiscreteSystem::with_holder
WithHolder(d, holder) ==
    [kind |-> "HeldSystem", system |-> d, holder |-> holder, last_time |-> 0]

\* The relative tolerance of the trigger check is 1e-5 = 1 / TolInv.
TolInv == 100000

\* Mutant: an absolute tolerance of 1e-5 instead of a relative one.
TriggerInToleranceAbsolute(dt, req_dt) == dt - req_dt < 1

\* dt - req_dt < req_dt * 1e-5, on integers: d < r/TolInv iff d < ceil(r/TolInv).
TriggerInTolerance(dt, req_dt) == dt - req_dt < CeilDiv(req_dt, TolInv)

\* Mutant: no early return before the period; the transition is always taken.
HeldSystemUpdateNoWait(s, t, u) ==
    LET dt == t - s.last_time
        d1 == [s.system EXCEPT !.state = NextState(s.system, t, s.system.state, u)]
        h1 == Hold(s.holder, t, DiscreteOutput(d1))
    IN  [sys |-> [s EXCEPT !.system = d1, !.holder = h1],
         ret |-> s.last_time + 2 * dt,
         panic |-> dt >= s.system.step /\ ~TriggerInTolerance(dt, s.system.step)]

\* Mutant: the holder is fed the output read before the transition.
HeldSystemUpdateStaleHold(s, t, u) ==
    LET req_dt == s.system.step
        dt     == t - s.last_time
    IN  IF dt < req_dt
        THEN [sys |-> s, ret |-> s.last_time + dt, panic |-> FALSE]
        ELSE IF ~TriggerInTolerance(dt, req_dt)
        THEN [sys |-> s, ret |-> 0, panic |-> TRUE]
        ELSE LET h1 == Hold(s.holder, t, DiscreteOutput(s.system))
                 d1 == [s.system EXCEPT
                           !.state = NextState(s.system, t, s.system.state, u)]
             IN  [sys |-> [s EXCEPT !.system = d1, !.holder = h1],
                  ret |-> s.last_time + 2 * dt, panic |-> FALSE]

\* HeldSystem::update.  A failed assert! is reported as panic = TRUE (nothing
\* is returned then; ret is not read).
HeldSystemUpdate(s, t, u) ==
    LET req_dt == s.system.step
        dt     == t - s.last_time
    IN  IF dt < req_dt
        THEN [sys |-> s, ret |-> s.last_time + dt, panic |-> FALSE]
        ELSE IF ~TriggerInTolerance(dt, req_dt)
        THEN [sys |-> s, ret |-> 0, panic |-> TRUE]
        ELSE LET d1 == [s.system EXCEPT
                           !.state = NextState(s.system, t, s.system.state, u)]
                 h1 == Hold(s.holder, t, DiscreteOutput(d1))
             IN  [sys |-> [s EXCEPT !.system = d1, !.holder = h1],
                  ret |-> s.last_time + 2 * dt, panic |-> FALSE]

-----------------------------------------------------------------------------
(* continuous/mod.rs, continuous/integrator.rs *)

\* PureIntegrator::new(max_timestep)
PureIntegratorNew(max_dt) == [state |-> 0, output |-> 0, max_timestep |-> max_dt]

\* PureIntegrator::get_derivative: the input.  The time and state arguments
\* are passed doubled (t2 = 2t, state2 = 2*state) so that the midpoints of
\* RungeKutta4 stay integers; this model ignores both.
GetDerivative(c, t2, state2, u) == u

\* PureIntegrator::get_output: the `output` field
ContinuousOutput(c, t) == c.output

RectangularIntegratorNew == [kind |-> "RectangularIntegrator"]

TrapezoidalIntegratorNew ==
    [kind |-> "TrapezoidalIntegrator", previous_derivative |-> 0]

RungeKutta4New == [kind |-> "RungeKutta4"]

\* RectangularIntegrator::integrate
RectangularIntegrate(i, c, t, dt, u) ==
    LET der == GetDerivative(c, 2 * t, 2 * c.state, u)
    IN  [system |-> [c EXCEPT !.state = c.state + der * dt], integrator |-> i]

\* TrapezoidalIntegrator::integrate
TrapezoidalIntegrate(i, c, t, dt, u) ==
    LET der == GetDerivative(c, 2 * t, 2 * c.state, u)
    IN  [system |-> [c EXCEPT !.state = ((i.previous_derivative + der) * dt) \div 2],
         integrator |-> [i EXCEPT !.previous_derivative = der]]

\* RungeKutta4::integrate
RungeKutta4Integrate(i, c, t, dt, u) ==
    LET k1 == GetDerivative(c, 2 * t, 2 * c.state, u)
        k2 == GetDerivative(c, 2 * t + dt, 2 * c.state + k1 * dt, u)
        k3 == GetDerivative(c, 2 * t + dt, 2 * c.state + k2 * dt, u)
        k4 == GetDerivative(c, 2 * t + 2 * dt, 2 * c.state + 2 * k3 * dt, u)
    IN  [system |-> [c EXCEPT !.state =
                        c.state + ((k1 + 2 * k2 + 2 * k3 + k4) * dt) \div 6],
         integrator |-> i]

\* Integrator::integrate
Integrate(i, c, t, dt, u) ==
    CASE i.kind = "RectangularIntegrator" -> RectangularIntegrate(i, c, t, dt, u)
      [] i.kind = "TrapezoidalIntegrator" -> TrapezoidalIntegrate(i, c, t, dt, u)
      [] i.kind = "RungeKutta4" -> RungeKutta4Integrate(i, c, t, dt, u)

\* ContinuousSystem::with_integrator
WithIntegrator(c, integrator) ==
    [kind |-> "IntegratedSystem", system |-> c, integrator |-> integrator,
     last_time |-> 0]

\* Mutant: the elapsed step is measured from time 0, not from last_time.
IntegratedSystemUpdateFromZero(s, t, u) ==
    LET r == Integrate(s.integrator, s.system, t, t, u)
    IN  [sys |-> [s EXCEPT !.last_time = t, !.system = r.system,
                           !.integrator = r.integrator],
         ret |-> t + s.system.max_timestep, panic |-> FALSE]

\* IntegratedSystem::update
IntegratedSystemUpdate(s, t, u) ==
    LET max_dt == s.system.max_timestep
        dt     == t - s.last_time
        r      == Integrate(s.integrator, s.system, t, dt, u)
    IN  [sys |-> [s EXCEPT !.last_time = t, !.system = r.system,
                           !.integrator = r.integrator],
         ret |-> t + max_dt, panic |-> FALSE]

-----------------------------------------------------------------------------
(* system/series.rs, system/cloop.rs, and the System trait's dispatch *)

SeriesSystemNew(first, second) ==
    [kind |-> "SeriesSystem", first |-> first, second |-> second]

ClosedLoopNew(forward, feedback) ==
    [kind |-> "ClosedLoop", forward |-> forward, feedback |-> feedback]

RECURSIVE Query(_, _)
\* System::get_output(time): the value returned and the system afterwards.
Query(s, t) ==
    CASE s.kind \in {"Gain", "UnitSystem"} -> [sys |-> s, value |-> s.output]
      [] s.kind = "IntegratedSystem" ->
            [sys |-> s, value |-> ContinuousOutput(s.system, t)]
      [] s.kind = "HeldSystem" ->
            LET r == HolderQuery(s.holder, t)
            IN  [sys |-> [s EXCEPT !.holder = r.holder], value |-> r.value]
      [] s.kind = "SeriesSystem" ->
            LET r == Query(s.second, t)
            IN  [sys |-> [s EXCEPT !.second = r.sys], value |-> r.value]
      [] s.kind = "ClosedLoop" ->
            LET r == Query(s.forward, t)
            IN  [sys |-> [s EXCEPT !.forward = r.sys], value |-> r.value]

\* The value of System::get_output(time).
GetOutput(s, t) == Query(s, t).value

\* Mutant: only the first constituent's next-event time is reported.
NextEventOfFirst(next1, next2) == next1

\* next1.min(next2)
NextEvent(next1, next2) == Min(next1, next2)

RECURSIVE Update(_, _, _)
\* Mutant: second is fed the output first had before its update.
SeriesSystemUpdateStale(s, t, u) ==
    LET q  == Query(s.first, t)
        r1 == Update(q.sys, t, u)
        r2 == Update(s.second, t, q.value)
    IN  [sys |-> [s EXCEPT !.first = r1.sys, !.second = r2.sys],
         ret |-> NextEvent(r1.ret, r2.ret), panic |-> r1.panic \/ r2.panic]

\* SeriesSystem::update
SeriesSystemUpdate(s, t, u) ==
    LET r1 == Update(s.first, t, u)
    IN  IF r1.panic
        THEN [sys |-> [s EXCEPT !.first = r1.sys], ret |-> 0, panic |-> TRUE]
        ELSE LET q  == Query(r1.sys, t)
                 r2 == Update(s.second, t, q.value)
                 s2 == [s EXCEPT !.first = q.sys, !.second = r2.sys]
             IN  IF r2.panic THEN [sys |-> s2, ret |-> 0, panic |-> TRUE]
                 ELSE [sys |-> s2, ret |-> NextEvent(r1.ret, r2.ret),
                       panic |-> FALSE]

\* Mutant: feedback is updated before the error is formed.
ClosedLoopUpdateFeedbackFirst(s, t, u) ==
    LET r2    == Update(s.feedback, t, GetOutput(s.forward, t))
        error == u - GetOutput(r2.sys, t)
        r1    == Update(s.forward, t, error)
    IN  [sys |-> [s EXCEPT !.forward = r1.sys, !.feedback = r2.sys],
         ret |-> NextEvent(r1.ret, r2.ret), panic |-> r1.panic \/ r2.panic]

\* ClosedLoop::update
ClosedLoopUpdate(s, t, u) ==
    LET qb    == Query(s.feedback, t)
        error == u - qb.value
        r1    == Update(s.forward, t, error)
    IN  IF r1.panic
        THEN [sys |-> [s EXCEPT !.forward = r1.sys, !.feedback = qb.sys],
              ret |-> 0, panic |-> TRUE]
        ELSE LET qf == Query(r1.sys, t)
                 r2 == Update(qb.sys, t, qf.value)
                 s2 == [s EXCEPT !.forward = qf.sys, !.feedback = r2.sys]
             IN  IF r2.panic THEN [sys |-> s2, ret |-> 0, panic |-> TRUE]
                 ELSE [sys |-> s2, ret |-> NextEvent(r1.ret, r2.ret),
                       panic |-> FALSE]

\* System::update(time, input): the system afterwards, the returned next-event
\* time, and whether the call panicked instead of returning.
Update(s, t, u) ==
    CASE s.kind = "Gain" -> GainUpdate(s, t, u)
      [] s.kind = "UnitSystem" -> UnitSystemUpdate(s, t, u)
      [] s.kind = "IntegratedSystem" -> IntegratedSystemUpdate(s, t, u)
      [] s.kind = "HeldSystem" -> HeldSystemUpdate(s, t, u)
      [] s.kind = "SeriesSystem" -> SeriesSystemUpdate(s, t, u)
      [] s.kind = "ClosedLoop" -> ClosedLoopUpdate(s, t, u)

-----------------------------------------------------------------------------
(* system/mod.rs: System::simulate, one action per statement of the loop *)

\* Bounds of the driver runs.
MaxTotal == 4
MaxStep == 2
MaxIter == 5

\* No direct call made (the driver specification does not use `last`).
NoCall == [made |-> FALSE]

\* Leaf systems the driver is run on.
SimLeaves ==
    {GainNew(1, 2), GainNew(2, 1), UnitSystemDefault}
    \cup {WithIntegrator(PureIntegratorNew(m), i) :
            m \in 1..MaxStep,
            i \in {RectangularIntegratorNew, TrapezoidalIntegratorNew, RungeKutta4New}}
    \cup {WithIntegrator(PureIntegratorNew(-1), RectangularIntegratorNew)}
    \cup {WithHolder(MockDiscreteNew(p), h) :
            p \in 1..MaxStep,
            h \in {ZeroOrderHoldNew, FirstOrderHoldNew, ImpulseHoldNew}}

\* Constituents of the composites the driver is run on.
PartLeaves ==
    {GainNew(1, 2), UnitSystemDefault,
     WithIntegrator(PureIntegratorNew(1), RungeKutta4New),
     WithIntegrator(PureIntegratorNew(2), RectangularIntegratorNew),
     WithHolder(MockDiscreteNew(2), ZeroOrderHoldNew)}

SimSystems ==
    SimLeaves
    \cup {SeriesSystemNew(a, b) : a \in PartLeaves, b \in PartLeaves}
    \cup {ClosedLoopNew(a, b) : a \in PartLeaves, b \in PartLeaves}
    \cup {SeriesSystemNew(ClosedLoopNew(GainNew(1, 2), UnitSystemDefault), GainNew(2, 1)),
          ClosedLoopNew(SeriesSystemNew(GainNew(1, 2),
                            WithIntegrator(PureIntegratorNew(1), RectangularIntegratorNew)),
                        UnitSystemDefault)}

\* Input schedules: constant 1.0, and 1.0 stepping to 2.0 at time 2.
SimInputs ==
    {ParamNew(DataScale), ParamStep(ParamNew(DataScale), 2 * DataScale, 2)}

Init ==
    /\ sys \in SimSystems
    /\ total_time \in -1..MaxTotal
    /\ max_timestep \in -1..MaxStep
    /\ input \in SimInputs
    /\ time = 0
    /\ next_time = 0
    /\ pc = "while"
    /\ samples = << >>
    /\ calls = << >>
    /\ last = NoCall

\* while time < total_time  (taken; runs are cut after MaxIter iterations)
SimLoopEnter ==
    /\ pc = "while"
    /\ time < total_time
    /\ Len(samples) < MaxIter
    /\ pc' = "input"
    /\ UNCHANGED <<sys, time, total_time, max_timestep, input, next_time,
                   samples, calls, last>>

\* while time < total_time  (not taken: simulate returns)
SimLoopExit ==
    /\ pc = "while"
    /\ ~(time < total_time)
    /\ pc' = "done"
    /\ UNCHANGED <<sys, time, total_time, max_timestep, input, next_time,
                   samples, calls, last>>

\* input.update(time);
SimInputUpdate ==
    /\ pc = "input"
    /\ input' = ParamUpdate(input, time).param
    /\ calls' = Append(calls, [op |-> "input.update", time |-> time])
    /\ pc' = "update"
    /\ UNCHANGED <<sys, time, total_time, max_timestep, next_time, samples, last>>

\* let next_time = self.update(time, &*input);
SimSystemUpdate ==
    /\ pc = "update"
    /\ LET r == Update(sys, time, input.value)
       IN  /\ sys' = r.sys
           /\ next_time' = IF r.panic THEN next_time ELSE r.ret
           /\ pc' = IF r.panic THEN "panicked" ELSE "emit"
           /\ calls' = Append(calls, [op |-> "update", time |-> time,
                                      input |-> input.value, panic |-> r.panic,
                                      ret |-> r.ret])
    /\ UNCHANGED <<time, total_time, max_timestep, input, samples, last>>

\* let sample = Sample { instant, input, output: self.get_output() }; callback(sample);
SimEmit ==
    /\ pc = "emit"
    /\ LET q == Query(sys, time)
           sample == [instant |-> time, input |-> input.value, output |-> q.value]
       IN  /\ sys' = q.sys
           /\ samples' = Append(samples, sample)
           /\ calls' = Append(calls, [op |-> "callback", sample |-> sample])
    /\ pc' = "advance"
    /\ UNCHANGED <<time, total_time, max_timestep, input, next_time, last>>

\* Mutant: the system's next-event time is ignored.
AdvanceByCeiling(next, t, max_dt) == t + max_dt

\* Mutant: max instead of min.
AdvanceByMax(next, t, max_dt) == IF next > t + max_dt THEN next ELSE t + max_dt

\* next_time.min(time + max_timestep)
Advance(next, t, max_dt) == Min(next, t + max_dt)

\* time = next_time.min(time + max_timestep);
SimAdvance ==
    /\ pc = "advance"
    /\ time' = Advance(next_time, time, max_timestep)
    /\ pc' = "while"
    /\ UNCHANGED <<sys, total_time, max_timestep, input, next_time, samples,
                   calls, last>>

Next ==
    \/ SimLoopEnter
    \/ SimLoopExit
    \/ SimInputUpdate
    \/ SimSystemUpdate
    \/ SimEmit
    \/ SimAdvance

Spec == Init /\ [][Next]_vars

-----------------------------------------------------------------------------
(* Direct calls of System::update, at non-decreasing times (the System      *)
(* contract of the callers), on wrappers and composites.                    *)

\* Bounds of the direct-call runs: the period (and maximum step) of the
\* wrapped models, in ticks, and the number of calls.
Period == 150000
MaxCalls == 3

\* Call times: before the period, at it, within and beyond the tolerance of
\* it, and at its multiples.
CallTimes ==
    {0, Period \div 2, Period, Period + 1, Period + 2,
     2 * Period, 2 * Period + 1, 3 * Period}

CallInputs == {DataScale, -(DataScale \div 2)}

HeldSystems ==
    {WithHolder(MockDiscreteNew(Period), h) :
        h \in {ZeroOrderHoldNew, FirstOrderHoldNew, ImpulseHoldNew}}

IntegratedSystems ==
    {WithIntegrator(PureIntegratorNew(Period), i) :
        i \in {RectangularIntegratorNew, TrapezoidalIntegratorNew, RungeKutta4New}}

CallParts ==
    {GainNew(1, 2), GainNew(4, 1), UnitSystemDefault,
     WithIntegrator(PureIntegratorNew(Period), RectangularIntegratorNew),
     WithIntegrator(PureIntegratorNew(2 * Period), RungeKutta4New),
     WithHolder(MockDiscreteNew(Period), ZeroOrderHoldNew)}

CallSystems ==
    HeldSystems \cup IntegratedSystems
    \cup {SeriesSystemNew(a, b) : a \in CallParts, b \in CallParts}
    \cup {ClosedLoopNew(a, b) : a \in CallParts, b \in CallParts}

InitCalls ==
    /\ sys \in CallSystems
    /\ pc = "call"
    /\ calls = << >>
    /\ last = NoCall
    /\ time = 0
    /\ total_time = 0
    /\ max_timestep = 0
    /\ input = ParamNew(0)
    /\ next_time = 0
    /\ samples = << >>

\* system.update(t, &u), called from outside the driver
UpdateCall(t, u) ==
    /\ pc = "call"
    /\ Len(calls) < MaxCalls
    /\ last.made => last.time <= t
    /\ LET r == Update(sys, t, u)
           c == [made |-> TRUE, time |-> t, input |-> u, before |-> sys,
                 after |-> r.sys, panic |-> r.panic, ret |-> r.ret]
       IN  /\ sys' = r.sys
           /\ last' = c
           /\ calls' = Append(calls, c)
           /\ pc' = IF r.panic THEN "panicked" ELSE "call"
    /\ UNCHANGED <<time, total_time, max_timestep, input, next_time, samples>>

NextCalls == \E t \in CallTimes, u \in CallInputs : UpdateCall(t, u)

SpecCalls == InitCalls /\ [][NextCalls]_vars

-----------------------------------------------------------------------------
(* Properties of the driver (Spec) *)

RECURSIVE StepsAtLeast(_, _)
\* Every continuous model's maximum step and every discrete model's period
\* within system s is >= m.
StepsAtLeast(s, m) ==
    CASE s.kind = "IntegratedSystem" -> s.system.max_timestep >= m
      [] s.kind = "HeldSystem" -> s.system.step >= m
      [] s.kind = "SeriesSystem" -> StepsAtLeast(s.first, m) /\ StepsAtLeast(s.second, m)
      [] s.kind = "ClosedLoop" -> StepsAtLeast(s.forward, m) /\ StepsAtLeast(s.feedback, m)
      [] OTHER -> TRUE

RECURSIVE HasKind(_, _)
\* System s is, or contains, a system of kind k.
HasKind(s, k) ==
    \/ s.kind = k
    \/ s.kind = "SeriesSystem" /\ (HasKind(s.first, k) \/ HasKind(s.second, k))
    \/ s.kind = "ClosedLoop" /\ (HasKind(s.forward, k) \/ HasKind(s.feedback, k))

\* C1 (as claimed): with total_time > 0 and max_timestep > 0 (and positive
\* declared steps and periods), every iteration of simulate strictly
\* increases the time cursor, for every system of the repository.
C1_EveryIterationAdvances ==
    [][(pc = "advance" /\ total_time > 0 /\ max_timestep > 0 /\ StepsAtLeast(sys, 1))
          => time' > time]_vars

\* The number of driver calls logged when the driver stands at pc, n samples
\* having been emitted.
CallsAt(p, n) ==
    CASE p \in {"while", "done", "advance"} -> 3 * n
      [] p = "input" -> 3 * n
      [] p = "update" -> 3 * n + 1
      [] p = "emit" -> 3 * n + 2
      [] p = "panicked" -> 3 * n + 2

\* C2: each iteration of simulate performs, in this order and exactly once,
\* input.update(time), system.update(time, current input), the emission of one
\* Sample (instant = the time passed to update, input = the value passed to
\* update, output = get_output read after that update), and then sets
\* time = min(next_time, time + max_timestep).
C2_IterationOrder ==
    /\ Len(calls) = CallsAt(pc, Len(samples))
    /\ \A k \in 1..Len(samples) :
          LET iu == calls[3 * k - 2]
              up == calls[3 * k - 1]
              cb == calls[3 * k]
          IN  /\ iu.op = "input.update"
              /\ up.op = "update" /\ ~up.panic
              /\ cb.op = "callback"
              /\ up.time = iu.time
              /\ cb.sample = samples[k]
              /\ samples[k].instant = up.time
              /\ samples[k].input = up.input
              /\ iu.time = IF k = 1 THEN 0
                           ELSE Min(calls[3 * k - 4].ret, calls[3 * k - 5].time + max_timestep)
    /\ (pc \in {"advance", "while", "done"} /\ Len(samples) > 0) =>
          LET up == calls[Len(calls) - 1]
          IN  /\ up.input = input.value
              /\ samples[Len(samples)].output = GetOutput(sys, up.time)
              /\ pc # "advance" => time = Min(up.ret, up.time + max_timestep)

\* Witness of C2: two iterations done, the second ended by the system's own
\* next-event time, which lay below the ceiling time + max_timestep.
C2_Witness ==
    /\ pc = "while" /\ Len(samples) = 2
    /\ next_time < samples[2].instant + max_timestep
    /\ time = next_time
    /\ samples[2].instant > 0

\* The sample instants start at 0, never decrease, lie below total_time, and
\* two consecutive ones differ by at most max_timestep; with total_time <= 0
\* nothing is updated and nothing emitted.
InstantsInOrder ==
    /\ Len(samples) > 0 => samples[1].instant = 0
    /\ \A k \in 1..Len(samples) : samples[k].instant < total_time
    /\ \A k \in 1..(Len(samples) - 1) :
          /\ samples[k].instant <= samples[k + 1].instant
          /\ samples[k + 1].instant - samples[k].instant <= max_timestep
    /\ total_time <= 0 => calls = << >> /\ samples = << >>

\* C3 (as claimed): InstantsInOrder in any simulate run.
C3_Original == InstantsInOrder

\* C3 (amended): InstantsInOrder in any simulate run with max_timestep >= 0
\* over systems none of whose continuous models declares a negative maximum
\* step; the total_time <= 0 part holds in every run.
C3_InstantsInOrder ==
    /\ (max_timestep >= 0 /\ StepsAtLeast(sys, 0)) => InstantsInOrder
    /\ total_time <= 0 => calls = << >> /\ samples = << >>

\* Witness of C3: a finished run of three samples at increasing instants,
\* the gaps below the ceiling max_timestep.
C3_Witness ==
    /\ pc = "done" /\ Len(samples) = 3 /\ max_timestep > 0
    /\ samples[2].instant > samples[1].instant
    /\ samples[3].instant > samples[2].instant
    /\ samples[3].instant - samples[2].instant < max_timestep

-----------------------------------------------------------------------------
(* Properties of direct update calls (SpecCalls) *)

\* The most recent call was made on a HeldSystem.
OnHeld == last.made /\ last.before.kind = "HeldSystem"

\* Elapsed time of the most recent call: time - last_time.
LastDt == last.time - last.before.last_time

\* C5: HeldSystem.update with dt = time - last_time below the period changes
\* nothing (discrete state, holder and so get_output, last_time) and returns
\* last_time + dt.
C5_NoTriggerChangesNothing ==
    (OnHeld /\ LastDt < last.before.system.step) =>
        /\ ~last.panic
        /\ sys.system.state = last.before.system.state
        /\ sys.holder = last.before.holder
        /\ sys.last_time = last.before.last_time
        /\ \A q \in CallTimes : GetOutput(sys, q) = GetOutput(last.before, q)
        /\ last.ret = last.before.last_time + LastDt

\* Witness of C5: a second call before the period, at a later time than the
\* first and with a non-zero input.
C5_Witness ==
    /\ OnHeld /\ Len(calls) = 2
    /\ 0 < LastDt /\ LastDt < last.before.system.step
    /\ last.input # 0
    /\ calls[1].time < last.time

\* C6: HeldSystem.update with dt >= period panics ("Requested event was not
\* triggered") exactly when dt - period >= period * 1e-5, before the discrete
\* state or the holder is modified; with period <= dt < period * (1 + 1e-5)
\* it does not panic.  (d >= p / TolInv, with p = a * TolInv + b.)
C6_AbortExactlyBeyondTolerance ==
    (OnHeld /\ LastDt >= last.before.system.step) =>
        LET p == last.before.system.step
            d == LastDt - p
            a == p \div TolInv
            b == p % TolInv
        IN  /\ last.panic <=> (d > a \/ (d = a /\ b = 0))
            /\ last.panic => /\ pc = "panicked"
                             /\ sys.system = last.before.system
                             /\ sys.holder = last.before.holder

\* Witness of C6: a call within the tolerance (dt = period + 1) that did not
\* panic, followed by a call just beyond it (dt = period + 2) that did.
C6_Witness ==
    /\ OnHeld /\ Len(calls) = 2
    /\ ~calls[1].panic
    /\ calls[1].time - calls[1].before.last_time = calls[1].before.system.step + 1
    /\ last.panic
    /\ LastDt = last.before.system.step + 2

\* C7: on a valid trigger HeldSystem.update replaces the state by
\* next_state(time, state, input), holds the output of the new state at time,
\* and returns last_time + 2*dt; get_output(time) is then the holder's
\* reconstruction of the new output (the new output itself, at the trigger
\* instant, for the three holders).
C7_TriggerTransition ==
    (OnHeld /\ LastDt >= last.before.system.step /\ ~last.panic) =>
        LET new_state == last.before.system.state + last.input
        IN  /\ sys.system.state = new_state
            /\ sys.holder = Hold(last.before.holder, last.time, new_state)
            /\ last.ret = last.before.last_time + 2 * LastDt
            /\ GetOutput(sys, last.time) = HolderQuery(sys.holder, last.time).value
            /\ GetOutput(sys, last.time) = new_state

\* Witness of C7: a second valid trigger, on a state the first one changed.
C7_Witness ==
    /\ OnHeld /\ Len(calls) = 2
    /\ ~last.panic /\ ~calls[1].panic
    /\ LastDt >= last.before.system.step
    /\ last.before.system.state # 0
    /\ sys.system.state # last.before.system.state
    /\ sys.holder.kind = "FirstOrderHold"

\* C8 (as claimed): after an update call, the last_time stored by the wrapper
\* (IntegratedSystem, HeldSystem) is the time argument of that call.
C8_LastTimeIsLatestUpdate ==
    (last.made /\ ~last.panic /\ sys.kind \in {"IntegratedSystem", "HeldSystem"}) =>
        sys.last_time = last.time

\* Call k of the log was a valid trigger of a HeldSystem.
Triggered(k) ==
    /\ calls[k].before.kind = "HeldSystem"
    /\ ~calls[k].panic
    /\ calls[k].time - calls[k].before.last_time >= calls[k].before.system.step

\* C9 (as claimed): the time returned by a valid trigger is the next trigger
\* instant: an update at exactly that time does not panic and performs another
\* state transition.
C9_ReturnedTimeIsNextTrigger ==
    \A k \in 1..(Len(calls) - 1) :
        (Triggered(k) /\ calls[k + 1].time = calls[k].ret) =>
            /\ ~calls[k + 1].panic
            /\ calls[k + 1].after.system.state =
                  calls[k + 1].before.system.state + calls[k + 1].input

\* The next-event times the two constituents return within the most recent
\* call on a composite.
ConstituentReturns ==
    LET s == last.before
        t == last.time
    IN  IF s.kind = "SeriesSystem"
        THEN LET r1 == Update(s.first, t, last.input)
                 r2 == Update(s.second, t, GetOutput(r1.sys, t))
             IN  <<r1, r2>>
        ELSE LET qb == Query(s.feedback, t)
                 r1 == Update(s.forward, t, last.input - qb.value)
                 r2 == Update(qb.sys, t, GetOutput(r1.sys, t))
             IN  <<r1, r2>>

OnComposite == last.made /\ last.before.kind \in {"SeriesSystem", "ClosedLoop"}

\* C10: the value returned by SeriesSystem.update and ClosedLoop.update is the
\* minimum of the two next-event times returned by the constituents in that
\* same call; both +infinity gives +infinity.
C10_NextEventIsMinimum ==
    (OnComposite /\ ~last.panic) =>
        LET r == ConstituentReturns
        IN  /\ ~r[1].panic /\ ~r[2].panic
            /\ last.ret <= r[1].ret /\ last.ret <= r[2].ret
            /\ last.ret \in {r[1].ret, r[2].ret}
            /\ (r[1].ret = INFINITY /\ r[2].ret = INFINITY) => last.ret = INFINITY

\* Witness of C10: a ClosedLoop call whose feedback constituent returned the
\* earlier, finite next-event time.
C10_Witness ==
    /\ OnComposite /\ ~last.panic /\ last.before.kind = "ClosedLoop"
    /\ ConstituentReturns[2].ret < ConstituentReturns[1].ret
    /\ ConstituentReturns[1].ret < INFINITY
    /\ last.ret = ConstituentReturns[2].ret

\* The most recent call was made on a SeriesSystem and returned.
OnSeries == last.made /\ ~last.panic /\ last.before.kind = "SeriesSystem"

\* C11: SeriesSystem.update(t, input) updates first with input, then second,
\* at the same time t, with the output first has after that update, and
\* get_output is second's output; two gains g1 and g2 give g1*g2*input after
\* every update (0.5 and 4.0 with input 1.0 give 2.0).
C11_SeriesOrder ==
    OnSeries =>
        LET b  == last.before
            r1 == Update(b.first, last.time, last.input)
            r2 == Update(b.second, last.time, GetOutput(r1.sys, last.time))
        IN  /\ sys.first = Query(r1.sys, last.time).sys
            /\ sys.second = r2.sys
            /\ \A q \in CallTimes : GetOutput(sys, q) = GetOutput(sys.second, q)
            /\ (b.first.kind = "Gain" /\ b.second.kind = "Gain") =>
                  /\ sys.first.output = GainMul(last.input, b.first.gain)
                  /\ GetOutput(sys, last.time) * b.first.gain.den * b.second.gain.den
                        = last.input * b.first.gain.num * b.second.gain.num
                  /\ (b.first.gain = GainNew(1, 2).gain /\ b.second.gain = GainNew(4, 1).gain
                        /\ last.input = DataScale)
                           => GetOutput(sys, last.time) = 2 * DataScale

\* Witness of C11: the series of the gains 0.5 and 4.0, updated a second
\* time with an input other than the first one, has output 2.0 for input 1.0.
C11_Witness ==
    /\ OnSeries /\ Len(calls) = 2
    /\ last.before.first.kind = "Gain" /\ last.before.first.gain = GainNew(1, 2).gain
    /\ last.before.second.kind = "Gain" /\ last.before.second.gain = GainNew(4, 1).gain
    /\ calls[1].input # last.input
    /\ last.input = DataScale
    /\ GetOutput(sys, last.time) = 2 * DataScale

\* The most recent call was made on a ClosedLoop and returned.
OnLoop == last.made /\ ~last.panic /\ last.before.kind = "ClosedLoop"

\* C12: ClosedLoop.update(t, input) forms error = input - feedback.get_output(t)
\* from the feedback output the previous update left (zero before the first),
\* updates forward with error, then feedback with the output forward has after
\* that update, both at time t; get_output is forward's output.
C12_LoopOrder ==
    OnLoop =>
        LET b     == last.before
            qb    == Query(b.feedback, last.time)
            error == last.input - qb.value
            r1    == Update(b.forward, last.time, error)
            r2    == Update(qb.sys, last.time, GetOutput(r1.sys, last.time))
        IN  /\ Len(calls) = 1 => qb.value = 0
            /\ Len(calls) > 1 =>
                  /\ b = calls[Len(calls) - 1].after
                  /\ b.feedback.kind \in {"Gain", "UnitSystem"} =>
                        qb.value = calls[Len(calls) - 1].after.feedback.output
            /\ sys.forward = Query(r1.sys, last.time).sys
            /\ sys.feedback = r2.sys
            /\ \A q \in CallTimes : GetOutput(sys, q) = GetOutput(sys.forward, q)
            /\ (b.forward.kind = "Gain" /\ b.feedback.kind = "UnitSystem") =>
                  /\ sys.forward.output = GainMul(last.input - b.feedback.output, b.forward.gain)
                  /\ sys.feedback.output = sys.forward.output

\* Witness of C12: a second update of the loop of gain 0.5 and unit feedback,
\* the feedback output left by the first update being non-zero.
C12_Witness ==
    /\ OnLoop /\ Len(calls) = 2
    /\ last.before.forward.kind = "Gain" /\ last.before.feedback.kind = "UnitSystem"
    /\ last.before.feedback.output # 0
    /\ sys.forward.output # last.before.forward.output
    /\ sys.forward.output = GainMul(last.input - last.before.feedback.output,
                                    last.before.forward.gain)

\* The most recent call was made on an IntegratedSystem.
OnIntegrated == last.made /\ last.before.kind = "IntegratedSystem"

\* The time of the update before the most recent one, 0 if there was none.
PreviousUpdateTime == IF Len(calls) > 1 THEN calls[Len(calls) - 1].time ELSE 0

\* C18: IntegratedSystem.update(time, input) integrates exactly once, over
\* dt = time - (time of the previous update, 0 initially), and returns
\* time + max_timestep of the wrapped model, for every input and integrator.
C18_IntegratesOnceOverElapsed ==
    OnIntegrated =>
        LET b  == last.before
            dt == last.time - PreviousUpdateTime
            r  == Integrate(b.integrator, b.system, last.time, dt, last.input)
        IN  /\ ~last.panic
            /\ last.ret = last.time + b.system.max_timestep
            /\ sys.system = r.system /\ sys.integrator = r.integrator
            /\ b.integrator.kind \in {"RectangularIntegrator", "RungeKutta4"} =>
                  sys.system.state = b.system.state + last.input * dt
            /\ b.integrator.kind = "TrapezoidalIntegrator" =>
                  /\ 2 * sys.system.state =
                        (b.integrator.previous_derivative + last.input) * dt
                  /\ sys.integrator.previous_derivative = last.input

\* Witness of C18: a second update, later than the first, so that the
\* elapsed step differs from the time of the call, changed the state.
C18_Witness ==
    /\ OnIntegrated /\ Len(calls) = 2
    /\ 0 < calls[1].time /\ calls[1].time < last.time
    /\ sys.system.state # last.before.system.state
    /\ last.before.system.state # 0
    /\ sys.integrator.kind = "RungeKutta4"

\* C21: after any sequence of updates of a PureIntegrator wrapped in an
\* integrator, get_output returns the current state (y = x).
C21_OutputIsState ==
    OnIntegrated => GetOutput(sys, last.time) = sys.system.state

-----------------------------------------------------------------------------
(* Direct calls of Holder::hold and Holder::get_output on a holder, in any   *)
(* order of times.                                                           *)

\* Bound: the number of hold calls.
MaxHolds == 3

\* Sample times: negative, zero, within EPSILON of zero, and later.
HoldTimes == {-4, 0, 1, 8}

HoldValues == {0, 2 * DataScale, 4 * DataScale}

\* Query times: before, at, within EPSILON of, between and after the samples.
QueryTimes == {-6, -4, -1, 0, 1, 2, 4, 8, 9, 10}

InitHold ==
    /\ sys \in {ZeroOrderHoldNew, FirstOrderHoldNew, ImpulseHoldNew}
    /\ pc = "hold"
    /\ calls = << >>
    /\ last = NoCall
    /\ time = 0
    /\ total_time = 0
    /\ max_timestep = 0
    /\ input = ParamNew(0)
    /\ next_time = 0
    /\ samples = << >>

\* holder.hold(t, &v)
HoldCall(t, v) ==
    /\ Len(calls) < MaxHolds
    /\ sys' = Hold(sys, t, v)
    /\ calls' = Append(calls, [time |-> t, value |-> v])
    /\ last' = NoCall
    /\ UNCHANGED <<pc, time, total_time, max_timestep, input, next_time, samples>>

\* holder.get_output(q)
QueryCall(q) ==
    /\ LET r == HolderQuery(sys, q)
       IN  /\ sys' = r.holder
           /\ last' = [made |-> TRUE, time |-> q, value |-> r.value, before |-> sys]
    /\ UNCHANGED <<pc, calls, time, total_time, max_timestep, input, next_time,
                   samples>>

NextHold ==
    \/ \E t \in HoldTimes, v \in HoldValues : HoldCall(t, v)
    \/ \E q \in QueryTimes : QueryCall(q)

SpecHold == InitHold /\ [][NextHold]_vars

\* C14: ZeroOrderHold.get_output returns the value of the most recent hold
\* call for every query time, also before the hold time, and zero if hold was
\* never called.
C14_ZohKeepsLastInput ==
    sys.kind = "ZeroOrderHold" =>
        LET held == IF calls = << >> THEN 0 ELSE calls[Len(calls)].value
        IN  /\ \A q \in QueryTimes : HolderQuery(sys, q).value = held
            /\ last.made => last.value = held

\* Witness of C14: after two holds, a query before the time of the latest
\* hold returned its non-zero value, which differs from the earlier one.
C14_Witness ==
    /\ sys.kind = "ZeroOrderHold" /\ Len(calls) = 2 /\ last.made
    /\ last.time < calls[2].time
    /\ last.value = calls[2].value /\ last.value # 0
    /\ calls[1].value # calls[2].value

\* The two most recent samples held, (t1, v1) before (t2, v2).
Held(k) == calls[Len(calls) - k]

\* What FirstOrderHold.get_output(q) is claimed to return between the samples
\* (t1, v1) and (t2, v2): v1 up to t1, v2 from t2 on, and in between the
\* interpolation v1*(1-tau) + v2*tau with tau = (q-t1)/(t2-t1), here to the
\* resolution of the data values.
Reconstructs(value, q, t1, v1, t2, v2) ==
    /\ q <= t1 => value = v1
    /\ q >= t2 => value = v2
    /\ (t1 < q /\ q < t2) =>
          LET n == v1 * (t2 - q) + v2 * (q - t1)
          IN  (t2 - t1) * value <= n /\ n < (t2 - t1) * (value + 1)

\* The fields of the first-order hold are the two most recent samples, and
\* every query is answered from them.
TwoSampleHold ==
    /\ sys.last_time = Held(1).time /\ sys.last_input = Held(1).value
    /\ sys.curr_time = Held(0).time /\ sys.curr_input = Held(0).value
    /\ \A q \in QueryTimes :
          Reconstructs(HolderQuery(sys, q).value, q, Held(1).time, Held(1).value,
                       Held(0).time, Held(0).value)
    /\ last.made =>
          Reconstructs(last.value, last.time, Held(1).time, Held(1).value,
                       Held(0).time, Held(0).value)

\* C15 (as claimed): after two or more FirstOrderHold.hold calls whose last
\* two sample times differ, the hold keeps the two most recent samples and
\* get_output clamps outside them and interpolates linearly between them.
C15_Original ==
    (sys.kind = "FirstOrderHold" /\ Len(calls) >= 2 /\ Held(1).time # Held(0).time)
        => TwoSampleHold

\* C15 (amended): the same, after two or more hold calls the last of which
\* came at least f64::EPSILON later than the one before it; samples (0, 0)
\* and (8, 2) give 1 at 4.
C15_FohInterpolates ==
    /\ (sys.kind = "FirstOrderHold" /\ Len(calls) >= 2
          /\ Held(0).time - Held(1).time >= EPSILON) => TwoSampleHold
    /\ (sys.kind = "FirstOrderHold" /\ Len(calls) >= 2
          /\ Held(1) = [time |-> 0, value |-> 0]
          /\ Held(0) = [time |-> 8, value |-> 2 * DataScale])
            => /\ HolderQuery(sys, 4).value = DataScale
               /\ HolderQuery(sys, -1).value = 0
               /\ HolderQuery(sys, 10).value = 2 * DataScale

\* Witness of C15: three holds, then a query strictly between the last two
\* samples, answered by a value strictly between theirs.
C15_Witness ==
    /\ sys.kind = "FirstOrderHold" /\ Len(calls) = 3 /\ last.made
    /\ Held(1).time < last.time /\ last.time < Held(0).time
    /\ Held(1).value < last.value /\ last.value < Held(0).value
    /\ Held(2).value # Held(1).value

\* C16 (as claimed): with fewer than two samples held, FirstOrderHold.get_output
\* returns the current value for every query time: zero before any hold, and
\* v0 after exactly one hold(t0, v0), for any t0.
C16_FohFewerThanTwoSamples ==
    (sys.kind = "FirstOrderHold" /\ Len(calls) < 2) =>
        LET held == IF calls = << >> THEN 0 ELSE calls[1].value
        IN  /\ \A q \in QueryTimes : HolderQuery(sys, q).value = held
            /\ last.made => last.value = held

\* C17: ImpulseHold.get_output(q) returns the most recently held value when
\* |q - last_time| < f64::EPSILON, last_time the time of the most recent hold,
\* and zero for every other query time.
C17_ImpulseOnlyAtInstant ==
    sys.kind = "ImpulseHold" =>
        /\ calls # << >> =>
              /\ sys.last_time = Held(0).time /\ sys.last_input = Held(0).value
              /\ \A q \in QueryTimes :
                    HolderQuery(sys, q).value =
                        IF Abs(q - Held(0).time) < EPSILON THEN Held(0).value ELSE 0
              /\ last.made =>
                    last.value =
                        IF Abs(last.time - Held(0).time) < EPSILON THEN Held(0).value ELSE 0
        /\ calls = << >> => \A q \in QueryTimes : HolderQuery(sys, q).value = 0

\* Witness of C17: after two holds at different times, a query within
\* EPSILON of the second hold's time, but not at it, returned its value.
C17_Witness ==
    /\ sys.kind = "ImpulseHold" /\ Len(calls) = 2 /\ last.made
    /\ Held(1).time # Held(0).time /\ Held(1).value # Held(0).value
    /\ last.time # Held(0).time
    /\ last.value = Held(0).value /\ last.value # 0

-----------------------------------------------------------------------------
(* IEEE-754 binary64 (f64) values: zero, +infinity and the positive finite  *)
(* values that are multiples of 2^(-F64Scale), with round-to-nearest-even   *)
(* addition.  A finite value x is held exactly, as the natural number       *)
(* x * 2^F64Scale; naturals of any size are sequences of limbs of LimbBits  *)
(* bits, least significant first, without leading zero limbs.  An f64 has   *)
(* at most 53 significant bits.                                             *)

Max(a, b) == IF a < b THEN b ELSE a

\* Bounds of the representation: bits per limb, and the binary scale.
LimbBits == 15
F64Scale == 60

Base == 2 ^ LimbBits

RECURSIVE Canon(_)
\* The limbs of A without leading (most significant) zero limbs.
Canon(A) ==
    IF A # << >> /\ A[Len(A)] = 0 THEN Canon(SubSeq(A, 1, Len(A) - 1)) ELSE A

RECURSIVE AddLimbs(_, _, _)
\* A + B + c
AddLimbs(A, B, c) ==
    IF A = << >> /\ B = << >> THEN (IF c = 0 THEN << >> ELSE <<c>>)
    ELSE LET a == IF A = << >> THEN 0 ELSE Head(A)
             b == IF B = << >> THEN 0 ELSE Head(B)
             t == a + b + c
         IN  <<t % Base>> \o AddLimbs(IF A = << >> THEN A ELSE Tail(A),
                                      IF B = << >> THEN B ELSE Tail(B),
                                      t \div Base)

\* A + B
BigAdd(A, B) == AddLimbs(A, B, 0)

\* A < B
BigLess(A, B) ==
    \/ Len(A) < Len(B)
    \/ /\ Len(A) = Len(B)
       /\ \E i \in 1..Len(A) :
             A[i] < B[i] /\ \A j \in (i + 1)..Len(A) : A[j] = B[j]

RECURSIVE MulAdd(_, _, _)
\* A * m + c, for small naturals m and c
MulAdd(A, m, c) ==
    IF A = << >> THEN (IF c = 0 THEN << >> ELSE <<c>>)
    ELSE LET t == Head(A) * m + c
         IN  <<t % Base>> \o MulAdd(Tail(A), m, t \div Base)

\* k * A, for a small natural k
BigTimes(k, A) == Canon(MulAdd(A, k, 0))

\* A * 2^n
BigShl(A, n) ==
    IF A = << >> THEN A
    ELSE [i \in 1..(n \div LimbBits) |-> 0] \o MulAdd(A, 2 ^ (n % LimbBits), 0)

\* 2^r
Pow2(r) == [i \in 1..(r \div LimbBits) |-> 0] \o <<2 ^ (r % LimbBits)>>

\* Number of significant bits of A.
BitLength(A) ==
    IF A = << >> THEN 0
    ELSE LimbBits * (Len(A) - 1)
         + (CHOOSE k \in 1..LimbBits :
                2 ^ (k - 1) <= A[Len(A)] /\ A[Len(A)] < 2 ^ k)

\* Bit j of the natural written with the hexadecimal digits h.
HexBit(h, j) ==
    IF j \div 4 >= Len(h) THEN 0
    ELSE (h[Len(h) - (j \div 4)] \div (2 ^ (j % 4))) % 2

RECURSIVE HexLimb(_, _, _)
\* Bits lo+b .. lo+LimbBits-1 of that natural, as a number scaled by 2^b.
HexLimb(h, lo, b) ==
    IF b = LimbBits THEN 0
    ELSE HexBit(h, lo + b) * (2 ^ b) + HexLimb(h, lo, b + 1)

\* The natural written with the hexadecimal digits h.
HexNat(h) ==
    Canon([i \in 1..((4 * Len(h)) \div LimbBits + 1) |->
              HexLimb(h, LimbBits * (i - 1), 0)])

F64Zero == [inf |-> FALSE, n |-> << >>]

F64Infinity == [inf |-> TRUE, n |-> << >>]

\* The f64 written 0x1.<h>p<e> in hexadecimal floating-point notation, h its
\* 13 hexadecimal digits: (2^52 + h) * 2^(e - 52).
F64Hex(h, e) == [inf |-> FALSE, n |-> BigShl(HexNat(<<1>> \o h), e - 52 + F64Scale)]

\* A with its r low bits cleared.
ClearLow(A, r) ==
    LET w == r \div LimbBits
        s == r % LimbBits
    IN  [i \in 1..Len(A) |->
            IF i <= w THEN 0
            ELSE IF i = w + 1 THEN A[i] - (A[i] % (2 ^ s))
            ELSE A[i]]

\* A mod 2^r
LowBits(A, r) ==
    LET w == r \div LimbBits
        s == r % LimbBits
    IN  Canon(SubSeq(A, 1, w) \o <<A[w + 1] % (2 ^ s)>>)

\* Bit r of A (bit 0 the least significant).
BitAt(A, r) == (A[(r \div LimbBits) + 1] \div (2 ^ (r % LimbBits))) % 2

\* Mutant: rounding toward zero.
F64RoundTruncating(A) ==
    IF BitLength(A) <= 53 THEN A ELSE ClearLow(A, BitLength(A) - 53)

\* The natural with at most 53 significant bits nearest to A + f, where
\* 0 < f < 1 if sticky and f = 0 otherwise; ties go to the even one.
F64RoundSticky(A, sticky) ==
    IF BitLength(A) <= 53 THEN A
    ELSE LET r    == BitLength(A) - 53
             rem  == LowBits(A, r)
             half == Pow2(r - 1)
             up   == \/ BigLess(half, rem)
                     \/ rem = half /\ (sticky \/ BitAt(A, r) = 1)
         IN  IF up THEN BigAdd(ClearLow(A, r), Pow2(r)) ELSE ClearLow(A, r)

\* The natural with at most 53 significant bits nearest to A; ties go to the
\* even one.
F64Round(A) == F64RoundSticky(A, FALSE)

\* x + y
F64Add(x, y) ==
    IF x.inf \/ y.inf THEN F64Infinity
    ELSE [inf |-> FALSE, n |-> F64Round(BigAdd(x.n, y.n))]

\* x < y
F64Less(x, y) ==
    IF x.inf THEN FALSE ELSE IF y.inf THEN TRUE ELSE BigLess(x.n, y.n)

\* x.min(y)
F64Min(x, y) == IF F64Less(y, x) THEN y ELSE x

RECURSIVE SubLimbs(_, _, _)
\* A - B - c, for A >= B + c
SubLimbs(A, B, c) ==
    IF A = << >> THEN << >>
    ELSE LET b == IF B = << >> THEN 0 ELSE Head(B)
             t == Head(A) - b - c
         IN  <<t % Base>> \o SubLimbs(Tail(A), IF B = << >> THEN B ELSE Tail(B),
                                      IF t < 0 THEN 1 ELSE 0)

\* A - B, for A >= B
BigSub(A, B) == Canon(SubLimbs(A, B, 0))

RECURSIVE DivLimbs(_, _, _)
\* The limbs of A, from the most significant one on, divided by the small
\* natural d with the remainder r carried in: quotient limbs (least
\* significant first) and final remainder.
DivLimbs(A, d, r) ==
    IF A = << >> THEN [q |-> << >>, r |-> r]
    ELSE LET t    == r * Base + A[Len(A)]
             rest == DivLimbs(SubSeq(A, 1, Len(A) - 1), d, t % d)
         IN  [q |-> rest.q \o <<t \div d>>, r |-> rest.r]

\* Guard limbs below the unit 2^-F64Scale that a quotient is computed to.
GuardLimbs == 2

\* x - y, for x >= y
F64Sub(x, y) == [inf |-> FALSE, n |-> F64Round(BigSub(x.n, y.n))]

\* k * x, k a small natural (an f64): the exact product, rounded once.
F64Times(k, x) == [inf |-> FALSE, n |-> F64Round(BigTimes(k, x.n))]

\* x / d, d a small natural (an f64): the exact quotient, rounded once.  The
\* quotient is at least 2^(53 - F64Scale), so that its f64 is a multiple of
\* the unit.
F64Div(x, d) ==
    LET qr == DivLimbs([i \in 1..GuardLimbs |-> 0] \o x.n, d, 0)
        R  == F64RoundSticky(Canon(qr.q), qr.r # 0)
    IN  [inf |-> FALSE,
         n |-> IF x.n = << >> THEN << >> ELSE SubSeq(R, GuardLimbs + 1, Len(R))]


RECURSIVE BigMul(_, _)
\* A * B
BigMul(A, B) ==
    IF A = << >> \/ B = << >> THEN << >>
    ELSE BigAdd(MulAdd(A, Head(B), 0), Canon(<<0>> \o BigMul(A, Tail(B))))

\* floor(A / 2^n)
BigShr(A, n) ==
    Canon(DivLimbs(SubSeq(A, (n \div LimbBits) + 1, Len(A)), 2 ^ (n % LimbBits), 0).q)

\* x * y: the exact product, rounded once.  The product is at least
\* 2^(53 - F64Scale), so that its f64 is a multiple of the unit.
F64Mul(x, y) == [inf |-> FALSE, n |-> BigShr(F64Round(BigMul(x.n, y.n)), F64Scale)]

-----------------------------------------------------------------------------
(* The systems on f64 data: Gain, UnitSystem, ClosedLoop, and the           *)
(* IntegratedSystem of a PureIntegrator, with non-negative values.          *)

F64GainNew(gain) == [kind |-> "Gain", gain |-> gain, output |-> F64Zero]

F64UnitSystemDefault == [kind |-> "UnitSystem", output |-> F64Zero]

F64PureIntegratorNew(max_dt) ==
    [state |-> F64Zero, output |-> F64Zero, max_timestep |-> max_dt]

F64TrapezoidalIntegratorNew ==
    [kind |-> "TrapezoidalIntegrator", previous_derivative |-> F64Zero]

\* Mutant: the step replaces the state instead of adding to it.
F64RectangularIntegrateReplacing(i, c, t, dt, u) ==
    [system |-> [c EXCEPT !.state = F64Mul(u, dt)], integrator |-> i]

\* RectangularIntegrator::integrate
F64RectangularIntegrate(i, c, t, dt, u) ==
    LET der == u
    IN  [system |-> [c EXCEPT !.state = F64Add(c.state, F64Mul(der, dt))],
         integrator |-> i]

\* Mutant: the derivative of the step is not retained.
F64TrapezoidalIntegrateForgetful(i, c, t, dt, u) ==
    [system |-> [c EXCEPT !.state =
                    F64Div(F64Mul(F64Add(i.previous_derivative, u), dt), 2)],
     integrator |-> i]

\* Mutant: the trapezoid is added to the state.
F64TrapezoidalIntegrateAccumulating(i, c, t, dt, u) ==
    [system |-> [c EXCEPT !.state =
                    F64Add(c.state,
                           F64Div(F64Mul(F64Add(i.previous_derivative, u), dt), 2))],
     integrator |-> [i EXCEPT !.previous_derivative = u]]

\* TrapezoidalIntegrator::integrate
F64TrapezoidalIntegrate(i, c, t, dt, u) ==
    LET der == u
    IN  [system |-> [c EXCEPT !.state =
                        F64Div(F64Mul(F64Add(i.previous_derivative, der), dt), 2)],
         integrator |-> [i EXCEPT !.previous_derivative = der]]

\* RungeKutta4::integrate
F64RungeKutta4Integrate(i, c, t, dt, u) ==
    LET k1 == u
        k2 == u
        k3 == u
        k4 == u
        k  == F64Add(F64Add(F64Add(k1, F64Times(2, k2)), F64Times(2, k3)), k4)
    IN  [system |-> [c EXCEPT !.state = F64Add(c.state, F64Mul(k, F64Div(dt, 6)))],
         integrator |-> i]

\* Integrator::integrate
F64Integrate(i, c, t, dt, u) ==
    CASE i.kind = "RectangularIntegrator" -> F64RectangularIntegrate(i, c, t, dt, u)
      [] i.kind = "TrapezoidalIntegrator" -> F64TrapezoidalIntegrate(i, c, t, dt, u)
      [] i.kind = "RungeKutta4" -> F64RungeKutta4Integrate(i, c, t, dt, u)

\* ContinuousSystem::with_integrator
F64WithIntegrator(c, integrator) ==
    [kind |-> "IntegratedSystem", system |-> c, integrator |-> integrator,
     last_time |-> F64Zero]

\* IntegratedSystem::update, at a time not before last_time
F64IntegratedSystemUpdate(s, t, u) ==
    LET max_dt == s.system.max_timestep
        dt     == F64Sub(t, s.last_time)
        r      == F64Integrate(s.integrator, s.system, t, dt, u)
    IN  [sys |-> [s EXCEPT !.last_time = t, !.system = r.system,
                           !.integrator = r.integrator],
         ret |-> F64Add(t, max_dt)]

RECURSIVE F64GetOutput(_)
\* System::get_output
F64GetOutput(s) ==
    CASE s.kind \in {"Gain", "UnitSystem"} -> s.output
      [] s.kind = "IntegratedSystem" -> s.system.output
      [] s.kind = "ClosedLoop" -> F64GetOutput(s.forward)

RECURSIVE F64Update(_, _, _)
\* Mutant: the loop is left open, the input itself drives forward.
F64ClosedLoopUpdateOpen(s, t, u) ==
    LET r1 == F64Update(s.forward, t, u)
        r2 == F64Update(s.feedback, t, F64GetOutput(r1.sys))
    IN  [sys |-> [s EXCEPT !.forward = r1.sys, !.feedback = r2.sys],
         ret |-> F64Min(r1.ret, r2.ret)]

\* ClosedLoop::update, for an input not below the feedback output
F64ClosedLoopUpdate(s, t, u) ==
    LET error == F64Sub(u, F64GetOutput(s.feedback))
        r1    == F64Update(s.forward, t, error)
        r2    == F64Update(s.feedback, t, F64GetOutput(r1.sys))
    IN  [sys |-> [s EXCEPT !.forward = r1.sys, !.feedback = r2.sys],
         ret |-> F64Min(r1.ret, r2.ret)]

\* System::update(time, input): the system afterwards and the returned
\* next-event time.
F64Update(s, t, u) ==
    CASE s.kind = "Gain" ->
            [sys |-> [s EXCEPT !.output = F64Mul(u, s.gain)], ret |-> F64Infinity]
      [] s.kind = "UnitSystem" ->
            [sys |-> [s EXCEPT !.output = u], ret |-> F64Infinity]
      [] s.kind = "IntegratedSystem" -> F64IntegratedSystemUpdate(s, t, u)
      [] s.kind = "ClosedLoop" -> F64ClosedLoopUpdate(s, t, u)

-----------------------------------------------------------------------------
(* System::simulate on f64 times and data; one action per loop iteration.   *)

\* Bound: iterations per run.
MaxF64Iter == 60

H0 == <<0, 0, 0, 0, 0, 0, 0, 0, 0, 0, 0, 0, 0>>
H9A == <<9, 9, 9, 9, 9, 9, 9, 9, 9, 9, 9, 9, 10>>
H3 == <<3, 3, 3, 3, 3, 3, 3, 3, 3, 3, 3, 3, 3>>
HCD == <<12, 12, 12, 12, 12, 12, 12, 12, 12, 12, 12, 12, 13>>
H8 == <<8, 0, 0, 0, 0, 0, 0, 0, 0, 0, 0, 0, 0>>
H4 == <<4, 0, 0, 0, 0, 0, 0, 0, 0, 0, 0, 0, 0>>
H6 == <<6, 0, 0, 0, 0, 0, 0, 0, 0, 0, 0, 0, 0>>

F64_0_1 == F64Hex(H9A, -4)
F64_0_2 == F64Hex(H9A, -3)
F64_0_4 == F64Hex(H9A, -2)
F64_0_8 == F64Hex(H9A, -1)
F64_0_3 == F64Hex(H3, -2)
F64_0_6 == F64Hex(H3, -1)
F64_0_9 == F64Hex(HCD, -1)
F64_0_25 == F64Hex(H0, -2)
F64_0_5 == F64Hex(H0, -1)
F64_1_0 == F64Hex(H0, 0)
F64_1_5 == F64Hex(H8, 0)
F64_2_0 == F64Hex(H0, 1)
F64_3_0 == F64Hex(H8, 1)
F64_12_0 == F64Hex(H8, 3)
F64_1_8 == F64Hex(HCD, 0)
F64_0_375 == F64Hex(H8, -2)
F64_0_3125 == F64Hex(H4, -2)
F64_0_34375 == F64Hex(H6, -2)

\* (total_time, max_timestep) of the f64 runs.
F64Runs ==
    {<<F64_0_4, F64_0_1>>, <<F64_1_0, F64_0_1>>, <<F64_1_0, F64_0_2>>,
     <<F64_0_3, F64_0_1>>, <<F64_0_5, F64_0_1>>, <<F64_0_8, F64_0_1>>,
     <<F64_0_9, F64_0_3>>, <<F64_0_6, F64_0_3>>, <<F64_0_6, F64_0_2>>,
     <<F64_1_0, F64_0_25>>, <<F64_2_0, F64_0_5>>, <<F64_1_5, F64_0_5>>,
     <<F64_1_0, F64_0_5>>, <<F64_0_2, F64_0_1>>, <<F64_0_1, F64_0_2>>,
     <<F64Zero, F64_0_1>>}

\* The unity-feedback loop of forward gain 0.5.
F64UnityLoop ==
    [kind |-> "ClosedLoop", forward |-> F64GainNew(F64_0_5),
     feedback |-> F64UnitSystemDefault]

InitF64 ==
    /\ sys \in {F64GainNew(F64_2_0), F64UnitSystemDefault, F64UnityLoop}
    /\ \E r \in F64Runs \cup {<<F64_12_0, F64_0_2>>} :
          total_time = r[1] /\ max_timestep = r[2]
    /\ input \in {ParamNew(F64_1_0), ParamNew(F64_3_0)}
    /\ time = F64Zero
    /\ next_time = F64Zero
    /\ pc = "while"
    /\ samples = << >>
    /\ calls = << >>
    /\ last = NoCall

\* while time < total_time
F64LoopTest(t, total) == F64Less(t, total)

\* One iteration of the loop of simulate.
F64SimIteration ==
    /\ pc = "while"
    /\ F64LoopTest(time, total_time)
    /\ Len(samples) < MaxF64Iter
    /\ LET p == ParamUpdate(input, time).param
           r == F64Update(sys, time, p.value)
           sample == [instant |-> time, input |-> p.value,
                      output |-> F64GetOutput(r.sys)]
       IN  /\ input' = p
           /\ sys' = r.sys
           /\ next_time' = r.ret
           /\ samples' = Append(samples, sample)
           /\ time' = F64Min(r.ret, F64Add(time, max_timestep))
    /\ UNCHANGED <<pc, total_time, max_timestep, calls, last>>

\* The loop test fails: simulate returns.
F64SimReturn ==
    /\ pc = "while"
    /\ ~F64LoopTest(time, total_time)
    /\ pc' = "done"
    /\ UNCHANGED <<sys, time, total_time, max_timestep, input, next_time,
                   samples, calls, last>>

NextF64 == F64SimIteration \/ F64SimReturn

SpecF64 == InitF64 /\ [][NextF64]_vars

\* ceil(total / step) in exact arithmetic: the least k with k * step >= total.
CeilRatio(total, step) ==
    LET ks == {k \in 0..(MaxF64Iter + 1) : ~BigLess(BigTimes(k, step.n), total.n)}
    IN  IF ks = {} THEN MaxF64Iter + 2
        ELSE CHOOSE k \in ks : \A j \in ks : k <= j

\* The f64 x is exactly k * step.
ExactMultiple(x, k, step) == x.n = BigTimes(k, step.n)

\* C4 (as claimed): a system whose update returns +infinity is sampled
\* exactly at 0, max_timestep, 2*max_timestep, ... (the f64 products) below
\* total_time, that is ceil(total_time / max_timestep) times.
C4_Original ==
    pc = "done" =>
        /\ Len(samples) = CeilRatio(total_time, max_timestep)
        /\ \A k \in 1..Len(samples) :
              samples[k].instant = F64Times(k - 1, max_timestep)

\* C4 (amended): the sample instants are the accumulated f64 sums t(1) = 0,
\* t(k+1) = t(k) + max_timestep (each rounded to nearest), for as long as
\* t(k) < total_time.  When every sum up to the first one not below total_time
\* is exact they are 0, max_timestep, 2*max_timestep, ... and there are
\* ceil(total_time / max_timestep) of them; total_time 0.4 and max_timestep
\* 0.1 give 4 samples.
C4_SampleInstants ==
    /\ Len(samples) > 0 => samples[1].instant = F64Zero
    /\ \A k \in 1..Len(samples) :
          /\ F64Less(samples[k].instant, total_time)
          /\ F64Add(samples[k].instant, max_timestep) =
                IF k < Len(samples) THEN samples[k + 1].instant ELSE time
    /\ pc = "done" =>
          /\ ~F64Less(time, total_time)
          /\ (/\ ExactMultiple(time, Len(samples), max_timestep)
              /\ \A k \in 1..Len(samples) :
                    ExactMultiple(samples[k].instant, k - 1, max_timestep))
                => Len(samples) = CeilRatio(total_time, max_timestep)
          /\ (total_time = F64_0_4 /\ max_timestep = F64_0_1) => Len(samples) = 4

\* Witness of C4: the run of total_time 0.4 and max_timestep 0.1 has returned
\* after sums that were not all exact.
C4_Witness ==
    /\ pc = "done" /\ total_time = F64_0_4 /\ max_timestep = F64_0_1
    /\ Len(samples) = 4
    /\ ~ExactMultiple(samples[4].instant, 3, max_timestep)

-----------------------------------------------------------------------------
(* Direct calls of IntegratedSystem::update on the PureIntegrator, on f64   *)
(* times and data, with a constant input, at non-decreasing times.          *)

\* Bound: the number of update calls.
MaxF64Calls == 2

F64CallTimes ==
    {F64_0_2, F64_0_25, F64_0_5, F64_0_9, F64_1_0, F64_1_5, F64_1_8, F64_3_0}

F64CallInputs == {F64_1_0, F64_2_0, F64_3_0, F64_0_3}

InitF64Calls ==
    /\ sys \in {F64WithIntegrator(F64PureIntegratorNew(F64_1_0), i) :
                  i \in {RectangularIntegratorNew, F64TrapezoidalIntegratorNew,
                         RungeKutta4New}}
    /\ input \in {ParamNew(u) : u \in F64CallInputs}
    /\ pc = "call"
    /\ calls = << >>
    /\ last = NoCall
    /\ time = F64Zero
    /\ total_time = F64Zero
    /\ max_timestep = F64Zero
    /\ next_time = F64Zero
    /\ samples = << >>

\* system.update(t, &u), u the constant input
F64UpdateCall(t) ==
    /\ Len(calls) < MaxF64Calls
    /\ last.made => ~F64Less(t, last.time)
    /\ LET r == F64Update(sys, t, input.value)
           c == [made |-> TRUE, time |-> t, input |-> input.value, before |-> sys,
                 after |-> r.sys, ret |-> r.ret]
       IN  /\ sys' = r.sys
           /\ last' = c
           /\ calls' = Append(calls, c)
    /\ UNCHANGED <<pc, time, total_time, max_timestep, input, next_time, samples>>

NextF64Calls == \E t \in F64CallTimes : F64UpdateCall(t)

SpecF64Calls == InitF64Calls /\ [][NextF64Calls]_vars

\* |A - B|
BigDist(A, B) == IF BigLess(A, B) THEN BigSub(B, A) ELSE BigSub(A, B)

\* Three times the distance of the f64 y to 1/3: |3y - 1|.
ThriceToThird(y) == BigDist(BigTimes(3, y.n), F64_1_0.n)

\* The output before sample k, zero before the first.
OutputBefore(k) == IF k = 1 THEN F64Zero ELSE samples[k - 1].output

\* The distance of output k to 1/3 is half that of the output before it.
HalvesAt(k) ==
    BigTimes(2, ThriceToThird(samples[k].output)) = ThriceToThird(OutputBefore(k))

\* The run of the unity-feedback loop of gain 0.5 with constant input 1.0.
UnityLoopRun == sys.kind = "ClosedLoop" /\ input.value = F64_1_0

\* simulate(1.0, 0.2, ..) of that loop has returned.
UnityLoopDone ==
    /\ UnityLoopRun /\ pc = "done"
    /\ total_time = F64_1_0 /\ max_timestep = F64_0_2

FiveOutputs ==
    /\ Len(samples) = 5
    /\ samples[1].output = F64_0_5
    /\ samples[2].output = F64_0_25
    /\ samples[3].output = F64_0_375
    /\ samples[4].output = F64_0_3125
    /\ samples[5].output = F64_0_34375

\* C13 (as claimed): ClosedLoop(Gain 0.5, UnitSystem) with constant input 1.0,
\* total_time 1.0 and max_timestep 0.2 emits exactly five samples, with
\* outputs 0.5, 0.25, 0.375, 0.3125, 0.34375; in every run of that loop the
\* distance of the output to 1/3 halves at every sample.
C13_Original ==
    /\ UnityLoopDone => FiveOutputs
    /\ UnityLoopRun => \A k \in 1..Len(samples) : HalvesAt(k)

\* C13 (amended): the five samples as claimed; in every run of that loop
\* y_k = 0.5 * (1 - y_(k-1)) in f64 arithmetic, with y_0 = 0 before the first
\* sample, and the distance to 1/3 halves at each of the first 54 samples.
C13_LoopConverges ==
    /\ UnityLoopDone => FiveOutputs
    /\ UnityLoopRun =>
          \A k \in 1..Len(samples) :
              /\ samples[k].output = F64Mul(F64_0_5, F64Sub(F64_1_0, OutputBefore(k)))
              /\ k <= 54 => HalvesAt(k)

\* Witness of C13: the five-sample run has returned with the last claimed
\* output.
C13_Witness ==
    /\ UnityLoopDone /\ Len(samples) = 5
    /\ samples[5].output = F64_0_34375
    /\ HalvesAt(5)

\* The naturals A (rounded to an f64) and A itself agree: A is an f64.
IsF64(A) == F64Round(A) = A

\* Every f64 operation of update call c of a rectangular or RK4 integration
\* of the constant input was exact.
ExactCall(c) ==
    LET u    == c.input.n
        dt   == BigSub(c.time.n, c.before.last_time.n)
        dtf  == F64Sub(c.time, c.before.last_time)
    IN  /\ IsF64(dt)
        /\ c.before.integrator.kind = "RectangularIntegrator" =>
              /\ IsF64(BigMul(u, dt))
              /\ IsF64(BigAdd(c.before.system.state.n, F64Mul(c.input, dtf).n))
        /\ c.before.integrator.kind = "RungeKutta4" =>
              /\ IsF64(BigTimes(3, u)) /\ IsF64(BigTimes(5, u)) /\ IsF64(BigTimes(6, u))
              /\ BigTimes(6, F64Div(dtf, 6).n) = dt
              /\ IsF64(BigMul(BigTimes(6, u), F64Div(dtf, 6).n))
              /\ IsF64(BigAdd(c.before.system.state.n,
                              F64Mul(F64Times(6, c.input), F64Div(dtf, 6)).n))

\* The system integrates with the rectangular rule or with RK4.
RectOrRK4 == sys.integrator.kind \in {"RectangularIntegrator", "RungeKutta4"}

\* C19 (as claimed): a PureIntegrator from zero state with constant input u
\* has, after one rectangular or RK4 step of size dt, state u*dt exactly, and
\* after any updates at non-decreasing times ending at T, state u*T.
C19_Original ==
    (RectOrRK4 /\ last.made) => sys.system.state = F64Mul(last.input, last.time)

\* C19 (amended): the same, whenever every f64 operation of the steps was
\* exact; the state is then u*T as a real number.
C19_ExactForConstantInput ==
    (RectOrRK4 /\ last.made /\ \A k \in 1..Len(calls) : ExactCall(calls[k])) =>
        /\ sys.system.state = F64Mul(last.input, last.time)
        /\ BigShl(sys.system.state.n, F64Scale) = BigMul(last.input.n, last.time.n)

\* Witness of C19: two RK4 steps of non-zero size, every operation exact.
C19_Witness ==
    /\ sys.integrator.kind = "RungeKutta4" /\ Len(calls) = 2
    /\ ExactCall(calls[1]) /\ ExactCall(calls[2])
    /\ F64Less(calls[1].time, calls[2].time)
    /\ sys.system.state = F64Mul(last.input, last.time)
    /\ sys.system.state # calls[1].after.system.state

\* The state after one update at time dt of a fresh system with integrator i.
OneStep(i, dt, u) ==
    F64Update(F64WithIntegrator(F64PureIntegratorNew(F64_1_0), i), dt, u).sys.system.state

\* Two consecutive trapezoidal steps of the same size from a fresh system.
TwoEqualTrapezoidalSteps ==
    /\ sys.integrator.kind = "TrapezoidalIntegrator" /\ Len(calls) = 2
    /\ F64Sub(calls[2].time, calls[1].time) = calls[1].time

\* C20 (as claimed): two consecutive trapezoidal steps of size dt with constant
\* input u, from zero state and zero retained derivative, leave the state
\* u*dt, the value one rectangular or one RK4 step of size dt produces.
C20_Original ==
    TwoEqualTrapezoidalSteps =>
        LET dt == calls[1].time
        IN  /\ sys.system.state = F64Mul(last.input, dt)
            /\ sys.system.state = OneStep(RectangularIntegratorNew, dt, last.input)
            /\ sys.system.state = OneStep(RungeKutta4New, dt, last.input)

\* C20 (amended): the state is u*dt, the value one rectangular step of size dt
\* produces, and the value one RK4 step produces whenever the f64 operations
\* of that RK4 step are exact.
C20_TrapezoidalTwoSteps ==
    TwoEqualTrapezoidalSteps =>
        LET dt  == calls[1].time
            rk4 == [calls[1] EXCEPT
                       !.before = F64WithIntegrator(F64PureIntegratorNew(F64_1_0),
                                                    RungeKutta4New)]
        IN  /\ sys.system.state = F64Mul(last.input, dt)
            /\ sys.system.state = OneStep(RectangularIntegratorNew, dt, last.input)
            /\ ExactCall(rk4) =>
                  sys.system.state = OneStep(RungeKutta4New, dt, last.input)

\* Witness of C20: two equal trapezoidal steps whose size is no dyadic
\* number; the first step left half the final state.
C20_Witness ==
    /\ TwoEqualTrapezoidalSteps
    /\ calls[1].time = F64_0_9
    /\ F64Times(2, calls[1].after.system.state) = sys.system.state
    /\ sys.system.state = F64Mul(last.input, F64_0_9)

-----------------------------------------------------------------------------
(* Direct use of Param and ParamWith: a schedule is built with Param::step,  *)
(* wrapped by Param::with, and then updated at times in any order.           *)

\* Bounds: the number of schedule entries and of update calls.
MaxParamSteps == 2
MaxParamCalls == 3

ParamValues == {DataScale, 2 * DataScale, 4 * DataScale}
ParamInstants == {1, 2, 5}
ParamCallbacks == {"inv", "double", "neg"}
ParamCallTimes == {0, 1, 3, 6}

InitParam ==
    /\ input \in {ParamNew(v) : v \in {DataScale, 2 * DataScale}}
    /\ pc = "build"
    /\ calls = << >>
    /\ last = NoCall
    /\ sys = UnitSystemDefault
    /\ time = 0
    /\ total_time = 0
    /\ max_timestep = 0
    /\ next_time = 0
    /\ samples = << >>

\* param = param.step(new_value, instant)
ParamStepCall(new_value, instant) ==
    /\ pc = "build"
    /\ Len(input.steps) < MaxParamSteps
    /\ input' = ParamStep(input, new_value, instant)
    /\ UNCHANGED <<sys, pc, time, total_time, max_timestep, next_time, samples,
                   calls, last>>

\* let mut param = param.with(callback)
ParamWithCall(callback) ==
    /\ pc = "build"
    /\ input' = ParamWith(input, callback)
    /\ pc' = "call"
    /\ UNCHANGED <<sys, time, total_time, max_timestep, next_time, samples,
                   calls, last>>

\* param.update(current_time) on the ParamWith
ParamUpdateCall(current_time) ==
    /\ pc = "call"
    /\ Len(calls) < MaxParamCalls
    /\ LET r == ParamWithUpdate(input, current_time)
           c == [made |-> TRUE, time |-> current_time, before |-> input,
                 after |-> r.pw, ret |-> r.changed]
       IN  /\ input' = r.pw
           /\ last' = c
           /\ calls' = Append(calls, [time |-> current_time, ret |-> r.changed,
                                      before |-> input.param.value])
    /\ UNCHANGED <<sys, pc, time, total_time, max_timestep, next_time, samples>>

NextParam ==
    \/ \E v \in ParamValues, t \in ParamInstants : ParamStepCall(v, t)
    \/ \E cb \in ParamCallbacks : ParamWithCall(cb)
    \/ \E t \in ParamCallTimes : ParamUpdateCall(t)

SpecParam == InitParam /\ [][NextParam]_vars

\* C22: Param.update(current_time) replaces the value by the next unconsumed
\* entry's value and returns true exactly when such an entry exists and
\* current_time >= its time; otherwise value and cursor stay and it returns
\* false.  The cursor moves forward by at most one entry per call, and once
\* the schedule is exhausted every update returns false.
C22_ParamUpdate ==
    last.made =>
        LET b   == last.before.param
            a   == last.after.param
            due == /\ b.next_step < Len(b.steps)
                   /\ last.time >= b.steps[b.next_step + 1].time
        IN  /\ last.ret <=> due
            /\ due => /\ a.value = b.steps[b.next_step + 1].value
                      /\ a.next_step = b.next_step + 1
            /\ ~due => a.value = b.value /\ a.next_step = b.next_step
            /\ a.steps = b.steps
            /\ b.next_step = Len(b.steps) => ~last.ret /\ a = b

\* Witness of C22: the schedule was consumed entry by entry and a later
\* update, past every entry, returned false.
C22_Witness ==
    /\ last.made /\ Len(calls) = MaxParamCalls
    /\ Len(input.param.steps) = 2
    /\ calls[1].ret /\ calls[2].ret /\ ~calls[3].ret
    /\ calls[3].time = 6
    /\ input.param.next_step = 2
    /\ input.param.steps[1].value # input.param.steps[2].value

\* The derived field is the callback applied to the current base value.
WithIsCallbackOfValue(w) == w.with = Callback(w.callback, w.param.value)

\* C23 (as claimed): `with` = callback(base value) after construction and
\* after every ParamWith.update; update recomputes `with` and returns true
\* exactly when the base value changed, and otherwise leaves `with`
\* untouched and returns false.
C23_Original ==
    /\ pc = "call" => WithIsCallbackOfValue(input)
    /\ last.made =>
          /\ last.ret <=> last.after.param.value # last.before.param.value
          /\ ~last.ret => last.after.with = last.before.with

\* C23 (amended): the same, with "the base value changed" read as "Param.update
\* consumed a schedule entry", whose value may equal the old one.
C23_WithFollowsValue ==
    /\ pc = "call" => WithIsCallbackOfValue(input)
    /\ last.made =>
          /\ last.ret <=> last.after.param.next_step # last.before.param.next_step
          /\ last.ret => last.after.with =
                            Callback(last.before.callback, last.after.param.value)
          /\ ~last.ret => last.after = last.before

\* Witness of C23: an update consumed an entry with a new value and the
\* derived field changed with it.
C23_Witness ==
    /\ last.made /\ last.ret
    /\ input.param.value # last.before.param.value
    /\ input.with # last.before.with
    /\ input.callback = "inv"
    /\ WithIsCallbackOfValue(input)

\* The update calls so far were made at non-decreasing times.
ParamTimesNonDecreasing ==
    \A k \in 1..Len(calls) - 1 : calls[k].time <= calls[k + 1].time

\* The value the schedule of p prescribes at time t, v0 being the value
\* before the first entry.
ScheduleValueAt(p, v0, t) ==
    LET reached == {i \in 1..Len(p.steps) : p.steps[i].time <= t}
    IN  IF reached = {} THEN v0
        ELSE p.steps[CHOOSE i \in reached : \A j \in reached : j <= i].value

\* C26: when Param.update is called at non-decreasing times, after update(t)
\* the value is that of the latest schedule entry whose time is <= t (the
\* initial value if there is none), also when several entries fall between
\* two consecutive calls.
C26_PiecewiseConstant ==
    (last.made /\ ParamTimesNonDecreasing) =>
        input.param.value = ScheduleValueAt(input.param, calls[1].before, last.time)

\* The most recent f64 call was made on a trapezoidal integration.
OnTrapezoidal == last.made /\ last.before.integrator.kind = "TrapezoidalIntegrator"

\* (previous_derivative + der) * dt * 0.5 for the most recent call.
TrapezoidOfLast ==
    F64Mul(F64Mul(F64Add(last.before.integrator.previous_derivative, last.input),
                  F64Sub(last.time, last.before.last_time)),
           F64_0_5)

ZeroStep == last.made /\ last.time = last.before.last_time

\* C25: an IntegratedSystem update whose time equals the time of the previous
\* update (dt = 0) leaves the continuous state unchanged, for every
\* integrator variant and every prior state.
C25_ZeroStepKeepsState ==
    ZeroStep => sys.system.state = last.before.system.state

-----------------------------------------------------------------------------
(* Direct calls of update / hold interleaved with any number of get_output   *)
(* calls, on systems and on holders.  `last.shadow` is the same object as it *)
(* would be had get_output never been called on it.                          *)

\* Bound: the number of update or hold calls.
MaxQueryCalls == 2

QueryParts ==
    {GainNew(1, 2),
     WithIntegrator(PureIntegratorNew(Period), RectangularIntegratorNew),
     WithHolder(MockDiscreteNew(Period), FirstOrderHoldNew)}

QuerySystems ==
    HeldSystems \cup IntegratedSystems
    \cup {SeriesSystemNew(a, b) : a \in QueryParts, b \in QueryParts}
    \cup {ClosedLoopNew(a, b) : a \in QueryParts, b \in QueryParts}

SystemQueryTimes == {0, Period \div 4, Period \div 2, Period, 2 * Period}

InitQuery ==
    /\ \/ sys \in QuerySystems /\ pc = "call"
       \/ sys \in {ZeroOrderHoldNew, FirstOrderHoldNew, ImpulseHoldNew} /\ pc = "hold"
    /\ last = [made |-> FALSE, shadow |-> sys, queried |-> FALSE]
    /\ calls = << >>
    /\ time = 0
    /\ total_time = 0
    /\ max_timestep = 0
    /\ input = ParamNew(0)
    /\ next_time = 0
    /\ samples = << >>

\* system.update(t, &u)
QueryUpdateCall(t, u) ==
    /\ pc = "call"
    /\ Len(calls) < MaxQueryCalls
    /\ last.made => last.time <= t
    /\ LET r  == Update(sys, t, u)
           rs == Update(last.shadow, t, u)
       IN  /\ sys' = r.sys
           /\ last' = [made |-> TRUE, time |-> t, ret |-> r.ret, panic |-> r.panic,
                       shadow |-> rs.sys, shadow_ret |-> rs.ret,
                       shadow_panic |-> rs.panic, queried |-> FALSE]
           /\ calls' = Append(calls, [time |-> t, input |-> u])
           /\ pc' = IF r.panic THEN "panicked" ELSE "call"
    /\ UNCHANGED <<time, total_time, max_timestep, input, next_time, samples>>

\* system.get_output(q)
QueryGetOutputCall(q) ==
    /\ pc = "call"
    /\ LET r == Query(sys, q)
       IN  /\ sys' = r.sys
           /\ last' = [query_time |-> q, value |-> r.value,
                       shadow_value |-> Query(last.shadow, q).value]
                      @@ [last EXCEPT !.queried = TRUE]
    /\ UNCHANGED <<pc, calls, time, total_time, max_timestep, input, next_time,
                   samples>>

\* holder.hold(t, &v)
QueryHoldCall(t, v) ==
    /\ pc = "hold"
    /\ Len(calls) < MaxQueryCalls
    /\ sys' = Hold(sys, t, v)
    /\ last' = [made |-> TRUE, time |-> t, shadow |-> Hold(last.shadow, t, v),
                queried |-> FALSE]
    /\ calls' = Append(calls, [time |-> t, value |-> v])
    /\ UNCHANGED <<pc, time, total_time, max_timestep, input, next_time, samples>>

\* holder.get_output(q)
QueryHolderCall(q) ==
    /\ pc = "hold"
    /\ LET r == HolderQuery(sys, q)
       IN  /\ sys' = r.holder
           /\ last' = [query_time |-> q, value |-> r.value,
                       shadow_value |-> HolderQuery(last.shadow, q).value]
                      @@ [last EXCEPT !.queried = TRUE]
    /\ UNCHANGED <<pc, calls, time, total_time, max_timestep, input, next_time,
                   samples>>

NextQuery ==
    \/ \E t \in CallTimes, u \in CallInputs : QueryUpdateCall(t, u)
    \/ \E q \in SystemQueryTimes : QueryGetOutputCall(q)
    \/ \E t \in HoldTimes, v \in HoldValues : QueryHoldCall(t, v)
    \/ \E q \in QueryTimes : QueryHolderCall(q)

SpecQuery == InitQuery /\ [][NextQuery]_vars

\* C27: get_output is a pure query on every system and holder: however often
\* and at whatever times it was called between the update / hold calls, a
\* later get_output returns what it returns on the object that was never
\* queried, and a later update has the same outcome and return value.
C27_GetOutputIsPure ==
    /\ last.queried => last.value = last.shadow_value
    /\ (pc # "hold" /\ last.made /\ ~last.queried) =>
          /\ last.ret = last.shadow_ret
          /\ last.panic = last.shadow_panic
    /\ pc = "hold" =>
          \A q \in QueryTimes : HolderQuery(sys, q).value = HolderQuery(last.shadow, q).value
    /\ pc = "call" =>
          \A q \in SystemQueryTimes : Query(sys, q).value = Query(last.shadow, q).value

\* Witness of C27: a first-order hold whose scratch buffer was written by an
\* interpolating get_output, and which was then queried again elsewhere.
C27_Witness ==
    /\ pc = "hold" /\ sys.kind = "FirstOrderHold"
    /\ sys # last.shadow
    /\ sys.output # 0
    /\ last.queried /\ last.value # sys.output
    /\ last.value = last.shadow_value

=============================================================================
